---- MODULE Spec2Model ----
(***************************************************************************)
(* State transition witness generation (crates/trie/trie/src/witness.rs).  *)
(*                                                                         *)
(* TrieWitness::compute is modelled as a sequential process whose program  *)
(* counter walks the function body; target_nodes, branch_node_children     *)
(* and next_root_from_proofs are operators computed the way the code       *)
(* computes them.  The multiproof provider (crate::proof::Proof), the node *)
(* codec and the hash builder live outside the files at hand and are       *)
(* modelled from the design document.                                      *)
(***************************************************************************)
EXTENDS Integers, Sequences, FiniteSets, TLC

\* Number of nibbles of an unpacked key (64 in the program).
KeyLen == 4
\* Number of children of a branch node (16 in the program).
Radix == 2
\* Largest number of leaves of the trie snapshot (account leaves plus storage leaves).
MaxLeaves == 3
\* Largest number of entries of the post state (account entries plus slot entries).
MaxChanges == 2
\* Largest number of distinct keys in use.
MaxKeys == 3

CHILD_INDEX_RANGE == 0 .. (Radix - 1)

RECURSIVE PathsOfLen(_)
PathsOfLen(n) ==
    IF n = 0 THEN {<<>>}
    ELSE {Append(p, i) : p \in PathsOfLen(n - 1), i \in CHILD_INDEX_RANGE}

\* All unpacked keys (hashed addresses and hashed slots).
AllKeys == PathsOfLen(KeyLen)

\* The one account that may own storage, in the snapshot and in the post state.
StorageAddr == [i \in 1 .. KeyLen |-> 0]

-----------------------------------------------------------------------------
(* Nibble paths *)

\* Nibbles::starts_with
starts_with(a, b) == Len(b) <= Len(a) /\ SubSeq(a, 1, Len(b)) = b

\* Ord of Nibbles: lexicographic, a proper prefix sorts first.
NibblesLess(a, b) ==
    \E i \in 1 .. Len(b) :
        /\ \A j \in 1 .. (i - 1) : j <= Len(a) /\ a[j] = b[j]
        /\ (i > Len(a) \/ a[i] < b[i])

\* The keys of a BTreeMap<Nibbles, _> in iteration order.
RECURSIVE SortedPaths(_)
SortedPaths(S) ==
    IF S = {} THEN <<>>
    ELSE LET m == CHOOSE x \in S : \A y \in S \ {x} : NibblesLess(x, y)
         IN  <<m>> \o SortedPaths(S \ {m})

\* The keys the snapshots and the post states draw from: the largest key and
\* the MaxKeys - 1 smallest ones.
Keys ==
    LET Rank(k) == Cardinality({y \in AllKeys : NibblesLess(y, k)})
    IN  {k \in AllKeys : Rank(k) < MaxKeys - 1 \/ Rank(k) = Cardinality(AllKeys) - 1}

\* Nibbles::slice(from..)
Suffix(p, from) == SubSeq(p, from + 1, Len(p))

\* key.pack(); resize(32, 0); unpack: the path right padded with zero nibbles.
PadKey(p) == [i \in 1 .. KeyLen |-> IF i <= Len(p) THEN p[i] ELSE 0]

-----------------------------------------------------------------------------
(* Node codec and hash *)

\* keccak256: injective on the encodings (collision freedom).
keccak256(bytes) == <<"keccak", bytes>>

\* The RLP of the empty string and its hash, the root of the empty trie.
EMPTY_STRING_CODE == [kind |-> "empty_string"]
EMPTY_ROOT_HASH == keccak256(EMPTY_STRING_CODE)

LeafNode(key, value) == [kind |-> "leaf", key |-> key, value |-> value]
ExtensionNode(key, child) == [kind |-> "extension", key |-> key, child |-> child]
BranchNode(state_mask, stack) == [kind |-> "branch", state_mask |-> state_mask, stack |-> stack]
\* The RLP of a 32-byte hash: one prefix byte, then the hash.
word_rlp(hash) == <<"0xa0", hash>>
\* Bytes that are no node encoding.
MalformedNode(path) == [kind |-> "malformed", at |-> path]

\* TrieNode::decode succeeds on exactly the three node shapes.
DecodeOk(bytes) == bytes.kind \in {"leaf", "extension", "branch"}

\* Either<B256, Vec<u8>>
Left(hash) == [left |-> hash]
Right(value) == [right |-> value]
IsLeft(e) == "left" \in DOMAIN e
IsRight(e) == "right" \in DOMAIN e

\* Option
None == [none |-> TRUE]
Some(v) == [some |-> v]
IsSome(o) == "some" \in DOMAIN o

\* Body(v) with v evaluated once.
With(v, Body(_)) == CHOOSE r \in {Body(x) : x \in {v}} : TRUE

\* An empty map.
EmptyMap == [p \in {} |-> None]

\* BTreeMap::extend / insert: the later value replaces the earlier one.
MapExtend(old, new) ==
    [p \in (DOMAIN old) \cup (DOMAIN new) |-> IF p \in DOMAIN new THEN new[p] ELSE old[p]]
MapInsert(m, k, v) == [p \in (DOMAIN m) \cup {k} |-> IF p = k THEN v ELSE m[p]]

-----------------------------------------------------------------------------
(* Leaf values *)

\* alloy_rlp::encode_fixed_size of a storage value.
EncodeU256(v) == [kind |-> "u256", value |-> v]

\* Account::default()
DefaultAccount == [nonce |-> 0, balance |-> 0]

\* TrieAccount::from((account, storage_root)), RLP encoded.
EncodeTrieAccount(account, storage_root) ==
    [kind |-> "account", nonce |-> account.nonce, balance |-> account.balance,
     storage_root |-> storage_root, code_hash |-> "KECCAK_EMPTY"]

-----------------------------------------------------------------------------
(* The Merkle-Patricia trie over a prefix-free set of entries.  An entry is *)
(* [path, node]: node is Right(value), a leaf, or Left(hash), a subtree     *)
(* known by its hash only.                                                  *)

Entry(path, node) == [path |-> path, node |-> node]

PrefixFree(paths) == \A p, q \in paths : p # q => ~starts_with(q, p)

Agree(paths, n) ==
    /\ \A p \in paths : Len(p) >= n
    /\ \A p, q \in paths : SubSeq(p, 1, n) = SubSeq(q, 1, n)

\* Length of the longest common prefix of a non-empty set of paths.
LCPLen(paths) ==
    CHOOSE n \in 0 .. KeyLen : Agree(paths, n) /\ (n = KeyLen \/ ~Agree(paths, n + 1))

RECURSIVE SortedInts(_)
SortedInts(S) ==
    IF S = {} THEN <<>>
    ELSE LET m == CHOOSE x \in S : \A y \in S : x <= y
         IN  <<m>> \o SortedInts(S \ {m})

RECURSIVE TrieNodeAt(_, _)
RECURSIVE TrieRef(_, _)

\* The reference (hash) of the subtree that holds the entries below path.
TrieRef(items, path) ==
    IF \E it \in items : items = {it} /\ IsLeft(it.node) /\ it.path = path
    THEN (CHOOSE it \in items : TRUE).node.left
    ELSE keccak256(TrieNodeAt(items, path))

\* The node at path of the trie that holds the entries, all of which start
\* with path.
TrieNodeAt(items, path) ==
    LET d == Len(path)
        Single(it) ==
            IF IsRight(it.node)
            THEN LeafNode(Suffix(it.path, d), it.node.right)
            ELSE ExtensionNode(Suffix(it.path, d), word_rlp(it.node.left))
        Branch(order) ==
            BranchNode({order[k] : k \in 1 .. Len(order)},
                [k \in 1 .. Len(order) |->
                    word_rlp(TrieRef({it \in items : it.path[d + 1] = order[k]},
                                     Append(path, order[k])))])
        Inner(lcp) ==
            IF Len(lcp) > d
            THEN ExtensionNode(Suffix(lcp, d), word_rlp(TrieRef(items, lcp)))
            ELSE With(SortedInts({i \in CHILD_INDEX_RANGE :
                                    \E it \in items : it.path[d + 1] = i}), Branch)
        Common(it) == SubSeq(it.path, 1, LCPLen({x.path : x \in items}))
    IN  IF Cardinality(items) = 1
        THEN With(CHOOSE it \in items : TRUE, Single)
        ELSE With(With(CHOOSE it \in items : TRUE, Common), Inner)

\* The root hash of the trie that holds the entries.
TrieRoot(items) ==
    IF items = {} THEN EMPTY_ROOT_HASH
    ELSE IF ~PrefixFree({it.path : it \in items})
    THEN keccak256([kind |-> "unspecified", items |-> items])
    ELSE TrieRef(items, <<>>)

\* Every node of the trie over leaf entries, as <<path, encoded node>>.
RECURSIVE TrieNodesUnder(_, _)
TrieNodesUnder(items, path) ==
    LET Below(node) ==
            {<<path, node>>} \cup
            (IF node.kind = "extension"
             THEN TrieNodesUnder(items, path \o node.key)
             ELSE IF node.kind = "branch"
             THEN UNION {TrieNodesUnder({it \in items : it.path[Len(path) + 1] = i},
                                        Append(path, i)) : i \in node.state_mask}
             ELSE {})
    IN  With(TrieNodeAt(items, path), Below)

TrieNodes(items) ==
    LET AsMap(ns) == [p \in {n[1] : n \in ns} |-> (CHOOSE n \in ns : n[1] = p)[2]]
    IN  With(IF items = {} THEN {} ELSE TrieNodesUnder(items, <<>>), AsMap)

-----------------------------------------------------------------------------
(* branch_node_children and target_nodes *)

\* branch_node_children with a stack pointer that never advances.
RECURSIVE branch_node_children_stuck(_, _, _, _, _)
branch_node_children_stuck(prefix, node, index, stack_ptr, children) ==
    IF index \notin CHILD_INDEX_RANGE THEN children
    ELSE IF index \in node.state_mask
    THEN branch_node_children_stuck(prefix, node, index + 1, stack_ptr,
            Append(children, <<Append(prefix, index), node.stack[stack_ptr][2]>>))
    ELSE branch_node_children_stuck(prefix, node, index + 1, stack_ptr, children)

RECURSIVE branch_node_children_loop(_, _, _, _, _)
branch_node_children_loop(prefix, node, index, stack_ptr, children) ==
    IF index \notin CHILD_INDEX_RANGE THEN children
    ELSE IF index \in node.state_mask
    THEN branch_node_children_loop(prefix, node, index + 1, stack_ptr + 1,
            Append(children, <<Append(prefix, index), node.stack[stack_ptr][2]>>))
    ELSE branch_node_children_loop(prefix, node, index + 1, stack_ptr, children)

\* The children of a branch node as <<child path, child hash>>, in index order.
branch_node_children(prefix, node) ==
    branch_node_children_loop(prefix, node, 0, 1, <<>>)

\* A witness that records the inner nodes of a proof and skips its leaves.
WitnessInsertInner(witness_opt, encoded) ==
    IF IsSome(witness_opt) /\ encoded.kind # "leaf"
    THEN Some(MapInsert(witness_opt.some, keccak256(encoded), encoded))
    ELSE witness_opt

\* A witness that is assigned the node instead of being extended with it.
WitnessAssign(witness_opt, encoded) ==
    IF IsSome(witness_opt)
    THEN Some([h \in {keccak256(encoded)} |-> encoded])
    ELSE witness_opt

\* witness.insert(keccak256(encoded), encoded) on an Option<&mut HashMap>.
WitnessInsert(witness_opt, encoded) ==
    IF IsSome(witness_opt)
    THEN Some(MapInsert(witness_opt.some, keccak256(encoded), encoded))
    ELSE witness_opt

\* The children of a branch that are not on the path to the key, as hashes.
BranchEntries(key, children) ==
    [p \in {children[k][1] : k \in {j \in 1 .. Len(children) :
                                      ~starts_with(key, children[j][1])}} |->
        Left((CHOOSE c \in {children[k] : k \in 1 .. Len(children)} : c[1] = p)[2])]

\* NodeEntries without the comparison of the leaf's path with the key.
NodeEntriesAnyLeaf(key, path, node) ==
    IF node.kind = "branch"
    THEN With(branch_node_children(path, node), LAMBDA children : BranchEntries(key, children))
    ELSE IF node.kind = "leaf"
    THEN [p \in {path \o node.key} |-> Right(node.value)]
    ELSE EmptyMap

\* The entries one decoded proof node adds to trie_nodes.
NodeEntries(key, path, node) ==
    IF node.kind = "branch"
    THEN With(branch_node_children(path, node), LAMBDA children : BranchEntries(key, children))
    ELSE IF node.kind = "leaf" /\ (path \o node.key) # key
    THEN [p \in {path \o node.key} |-> Right(node.value)]
    ELSE EmptyMap

RECURSIVE target_nodes_loop(_, _, _, _, _)
target_nodes_loop(key, proof, i, trie_nodes, witness_opt) ==
    IF i > Len(proof)
    THEN [status |-> "ok", trie_nodes |-> trie_nodes, witness |-> witness_opt]
    ELSE LET path == proof[i][1]
             encoded == proof[i][2]
             Step(recorded) ==
                IF ~DecodeOk(encoded)
                THEN [status |-> "decode", trie_nodes |-> trie_nodes, witness |-> recorded]
                ELSE IF encoded.kind = "branch" /\ Len(path) >= Len(key)
                THEN [status |-> "panic", trie_nodes |-> trie_nodes, witness |-> recorded]
                ELSE With(MapExtend(trie_nodes, NodeEntries(key, path, encoded)),
                          LAMBDA extended :
                              target_nodes_loop(key, proof, i + 1, extended, recorded))
         IN  With(WitnessInsert(witness_opt, encoded), Step)

\* target_nodes that puts the value in only below a proof with nodes.
target_nodes_proved(key, value, proof, witness_opt) ==
    LET Finish(r) ==
            IF r.status = "ok" /\ IsSome(value) /\ proof # <<>>
            THEN [r EXCEPT !.trie_nodes = MapInsert(r.trie_nodes, key, Right(value.some))]
            ELSE r
    IN  With(target_nodes_loop(key, proof, 1, EmptyMap, witness_opt), Finish)

\* target_nodes(key, value, proof, witness): proof is the sequence of
\* <<path, encoded node>> the iterator yields, value and witness are Options.
target_nodes(key, value, proof, witness_opt) ==
    LET Finish(r) ==
            IF r.status = "ok" /\ IsSome(value)
            THEN [r EXCEPT !.trie_nodes = MapInsert(r.trie_nodes, key, Right(value.some))]
            ELSE r
    IN  With(target_nodes_loop(key, proof, 1, EmptyMap, witness_opt), Finish)

\* subtree.iter().filter(|e| key.starts_with(e.0)): a BTreeMap in key order.
ProofFor(subtree, key) ==
    LET Entries(paths) == [k \in 1 .. Len(paths) |-> <<paths[k], subtree[paths[k]]>>]
    IN  With(SortedPaths({p \in DOMAIN subtree : starts_with(key, p)}), Entries)

-----------------------------------------------------------------------------
VARIABLES
    snapshot,            \* what the cursor factories read: the trie behind the provider
    state,               \* the HashedPostState argument of compute
    pc,                  \* position in compute
    proof_targets,       \* HashMap built at the top of compute
    remaining,           \* targets the for loop has not visited yet
    account_multiproof,  \* the MultiProof returned by the provider
    account_trie_nodes,
    storage_trie_nodes,
    cur,                 \* locals of the current iteration of the for loop
    witness,             \* self.witness
    result,              \* what compute returned, None while it runs
    requests,            \* every request made to the provider, in order
    debug_assertions,    \* "either" until a debug_assert fails, then "off"
    tn,                  \* arguments and result of the latest target_nodes call
    roots,               \* results of the next_root_from_proofs calls so far
    events,              \* the steps of compute taken so far
    submission_id,       \* BlobTransactions::submission_id
    by_id,               \* BlobTransactions::by_id
    all,                 \* BlobTransactions::all
    size_of,             \* BlobTransactions::size_of
    live,                \* the transactions added and not yet removed
    call                 \* the latest call on the blob pool, with what it returned

blobvars == <<submission_id, by_id, all, size_of, live, call>>

witnessvars == <<snapshot, state, pc, proof_targets, remaining, account_multiproof,
                 account_trie_nodes, storage_trie_nodes, cur, witness, result, requests,
                 debug_assertions, tn, roots, events>>

vars == <<snapshot, state, pc, proof_targets, remaining, account_multiproof,
          account_trie_nodes, storage_trie_nodes, cur, witness, result, requests,
          debug_assertions, tn, roots, events,
          submission_id, by_id, all, size_of, live, call>>

\* No call on the blob pool yet.
NoPoolCall == [op |-> "none"]

\* impl Default for BlobTransactions
BlobDefault ==
    /\ submission_id = 0
    /\ by_id = EmptyMap
    /\ all = {}
    /\ size_of = 0
    /\ live = {}
    /\ call = NoPoolCall

-----------------------------------------------------------------------------
(* The multiproof provider: Proof over the snapshot *)

\* The leaves of the storage trie of an account in the snapshot.
SnapshotStorageItems(hashed_address) ==
    IF hashed_address = StorageAddr /\ hashed_address \in DOMAIN snapshot.accounts
    THEN {Entry(slot, Right(EncodeU256(snapshot.storage[slot]))) : slot \in DOMAIN snapshot.storage}
    ELSE {}

SnapshotStorageRoot(hashed_address) == TrieRoot(SnapshotStorageItems(hashed_address))

\* The leaves of the account trie in the snapshot.
SnapshotAccountItems ==
    {Entry(a, Right(EncodeTrieAccount(snapshot.accounts[a], SnapshotStorageRoot(a)))) :
        a \in DOMAIN snapshot.accounts}

\* The stored nodes of one trie; one of them may be unreadable.
StoredNodes(trie, items) ==
    LET Stored(nodes) ==
            [p \in DOMAIN nodes |->
                IF snapshot.corrupt = <<trie, p>> THEN MalformedNode(p) ELSE nodes[p]]
    IN  With(TrieNodes(items), Stored)

\* The nodes on the paths to the targets.
Subtree(nodes, targets) ==
    [p \in {q \in DOMAIN nodes : \E t \in targets : starts_with(t, q)} |-> nodes[p]]

\* Proof::storage_multiproof
StorageMultiProof(hashed_address, slots) ==
    [root |-> SnapshotStorageRoot(hashed_address),
     subtree |-> With(StoredNodes("storage", SnapshotStorageItems(hashed_address)),
                      LAMBDA nodes : Subtree(nodes, slots))]

\* StorageMultiProof::default()
DefaultStorageMultiProof == [root |-> EMPTY_ROOT_HASH, subtree |-> EmptyMap]

\* Proof::multiproof: a storage multiproof for every target account of the trie.
MultiProof(targets) ==
    [account_subtree |-> With(StoredNodes("account", SnapshotAccountItems),
                              LAMBDA nodes : Subtree(nodes, DOMAIN targets)),
     storages |-> [a \in (DOMAIN targets) \cap (DOMAIN snapshot.accounts) |->
                      StorageMultiProof(a, targets[a])]]

-----------------------------------------------------------------------------
(* The hash builder *)

NewHashBuilder == [key |-> <<>>, adds |-> <<>>, ok |-> TRUE]

\* add_leaf asserts key > self.key.
add_leaf(hb, key, value) ==
    [key |-> key, adds |-> Append(hb.adds, Entry(key, Right(value))),
     ok |-> hb.ok /\ NibblesLess(hb.key, key)]

\* add_branch asserts key > self.key || (self.key.is_empty() && key.is_empty()).
add_branch(hb, key, hash) ==
    [key |-> key, adds |-> Append(hb.adds, Entry(key, Left(hash))),
     ok |-> hb.ok /\ (NibblesLess(hb.key, key) \/ (hb.key = <<>> /\ key = <<>>))]

\* root(): the root of the trie over everything added.
HashBuilderRoot(hb) == With({hb.adds[k] : k \in 1 .. Len(hb.adds)}, TrieRoot)

-----------------------------------------------------------------------------
(* next_root_from_proofs *)

\* The two closures compute passes as trie_node_provider.  provider is
\* [trie, hashed_address, fault]; the fault, if any, strikes the first call.
trie_node_provider(provider, key, witness_map, calls) ==
    LET Serve(subtree) ==
            IF calls = <<>> /\ provider.fault = "proof_error"
            THEN [status |-> "proof_error", witness |-> witness_map]
            ELSE IF key \notin DOMAIN subtree \/ (calls = <<>> /\ provider.fault = "missing")
            THEN [status |-> "missing", witness |-> witness_map]
            ELSE [status |-> "ok", node |-> subtree[key],
                  witness |-> MapInsert(witness_map, keccak256(subtree[key]), subtree[key])]
    IN  With(IF provider.trie = "storage"
             THEN StorageMultiProof(provider.hashed_address, {PadKey(key)}).subtree
             ELSE MultiProof([a \in {PadKey(key)} |-> {}]).account_subtree,
             Serve)

\* An ignored set that compares the next key with the parent of the key.
IgnoredKeysByParent(keys) ==
    {keys[k] : k \in {j \in 1 .. (Len(keys) - 1) :
        starts_with(keys[j + 1], SubSeq(keys[j], 1, Len(keys[j]) - 1))}}

\* The keys the first loop puts into ignored.
IgnoredKeys(keys) ==
    {keys[k] : k \in {j \in 1 .. (Len(keys) - 1) : starts_with(keys[j + 1], keys[j])}}

\* An expansion that adds the children of the branch from the last to the first.
RECURSIVE add_children_reversed(_, _, _)
add_children_reversed(hb, children, k) ==
    IF k > Len(children) THEN hb
    ELSE With(add_branch(hb, children[Len(children) + 1 - k][1],
                         children[Len(children) + 1 - k][2]),
              LAMBDA added : add_children_reversed(added, children, k + 1))

\* An expansion that adds the first child of the branch only.
add_first_child(hb, children, k) ==
    IF children = <<>> THEN hb
    ELSE add_branch(hb, children[1][1], children[1][2])

RECURSIVE add_children(_, _, _)
add_children(hb, children, k) ==
    IF k > Len(children) THEN hb
    ELSE With(add_branch(hb, children[k][1], children[k][2]),
              LAMBDA added : add_children(added, children, k + 1))

Outcome(status, key, hb, witness_map, calls) ==
    [status |-> status, key |-> key, hb |-> hb, witness |-> witness_map, calls |-> calls,
     steps |-> <<>>]

\* What the loop did with one entry: the builder's key before it, the path of
\* the entry after it if any, and the provider requests and builder additions
\* the entry caused.
StepRecord(path, value, hb, next, calls, r) ==
    [path |-> path, node |-> value, builder_key |-> hb.key, next |-> next,
     status |-> r.status,
     calls |-> SubSeq(r.calls, Len(calls) + 1, Len(r.calls)),
     adds |-> SubSeq(r.hb.adds, Len(hb.adds) + 1, Len(r.hb.adds))]

\* A test that wants the builder's key and the next entry both below the parent.
AddsDirectlyIfBoth(builder_key, parent_branch_path, next) ==
    /\ starts_with(builder_key, parent_branch_path)
    /\ (IsSome(next) /\ starts_with(next.some, parent_branch_path))

\* Lines 273-276: the hash can be added without asking the provider.
AddsDirectly(builder_key, parent_branch_path, next) ==
    \/ starts_with(builder_key, parent_branch_path)
    \/ (IsSome(next) /\ starts_with(next.some, parent_branch_path))

\* The loop that resolves an isolated branch child through the provider.
RECURSIVE resolve_missing(_, _, _, _, _)
resolve_missing(path, hb, provider, witness_map, calls) ==
    LET called == Append(calls, path)
        Resolve(got) ==
            IF got.status # "ok"
            THEN Outcome(got.status, path, hb, got.witness, called)
            ELSE IF ~DecodeOk(got.node)
            THEN Outcome("decode", path, hb, got.witness, called)
            ELSE IF got.node.kind = "branch"
            THEN Outcome("ok", path,
                         With(branch_node_children(path, got.node),
                              LAMBDA children : add_children(hb, children, 1)),
                         got.witness, called)
            ELSE IF got.node.kind = "leaf"
            THEN Outcome("ok", path, add_leaf(hb, path \o got.node.key, got.node.value),
                         got.witness, called)
            ELSE resolve_missing(path \o got.node.key, hb, provider, got.witness, called)
    IN  With(trie_node_provider(provider, path, witness_map, calls), Resolve)

RECURSIVE next_root_loop(_, _, _, _, _, _, _)
next_root_loop(entries, i, hb, provider, witness_map, calls, steps) ==
    IF ~hb.ok
    THEN [Outcome("panic", hb.key, hb, witness_map, calls) EXCEPT !.steps = steps]
    ELSE IF i > Len(entries)
    THEN [Outcome("ok", <<>>, hb, witness_map, calls) EXCEPT !.steps = steps]
    ELSE LET path == entries[i][1]
             value == entries[i][2]
             next == IF i < Len(entries) THEN Some(entries[i + 1][1]) ELSE None
             parent_branch_path == SubSeq(path, 1, Len(path) - 1)
             Continue(r) ==
                With(Append(steps, StepRecord(path, value, hb, next, calls, r)),
                     LAMBDA logged :
                        IF r.status # "ok" THEN [r EXCEPT !.steps = logged]
                        ELSE next_root_loop(entries, i + 1, r.hb, provider, r.witness,
                                            r.calls, logged))
         IN  IF IsRight(value)
             THEN With(Outcome("ok", path, add_leaf(hb, path, value.right),
                               witness_map, calls), Continue)
             ELSE IF Len(path) = 0
             THEN With(Outcome("panic", path, hb, witness_map, calls), Continue)
             ELSE IF AddsDirectly(hb.key, parent_branch_path, next)
             THEN With(Outcome("ok", path, add_branch(hb, path, value.left),
                               witness_map, calls), Continue)
             ELSE With(resolve_missing(path, hb, provider, witness_map, calls), Continue)

\* The entries in key order with nothing left out.
RetainedEntriesUnfiltered(trie_nodes) ==
    With(SortedPaths(DOMAIN trie_nodes),
         LAMBDA kept : [k \in 1 .. Len(kept) |-> <<kept[k], trie_nodes[kept[k]]>>])

\* The entries that survive the ignored set, in key order.
RetainedEntries(trie_nodes) ==
    LET Retain(keys) ==
            With(SortedPaths({keys[k] : k \in 1 .. Len(keys)} \ IgnoredKeys(keys)),
                 LAMBDA kept : [k \in 1 .. Len(kept) |-> <<kept[k], trie_nodes[kept[k]]>>])
    IN  With(SortedPaths(DOMAIN trie_nodes), Retain)

\* next_root_from_proofs(trie_nodes, false, trie_node_provider): status is
\* "ok" with the root, or the error, or "panic" when an assertion of the
\* hash builder or a slice bound fails.
next_root_from_proofs(trie_nodes, provider, witness_map) ==
    LET Finish(entries, r) ==
            [status |-> r.status,
             key |-> r.key,
             root |-> IF r.status = "ok" THEN HashBuilderRoot(r.hb) ELSE EMPTY_ROOT_HASH,
             entries |-> entries,
             adds |-> r.hb.adds,
             calls |-> r.calls,
             steps |-> r.steps,
             witness |-> r.witness]
        Run(entries) ==
            With(next_root_loop(entries, 1, NewHashBuilder, provider, witness_map, <<>>, <<>>),
                 LAMBDA r : Finish(entries, r))
    IN  With(RetainedEntries(trie_nodes), Run)

-----------------------------------------------------------------------------
(* Initial states: a snapshot and a post state *)

SnapshotAccount == [nonce |-> 1, balance |-> 0]
PostAccount == [nonce |-> 2, balance |-> 0]

\* The snapshots: at most MaxLeaves leaves, storage under StorageAddr only, and
\* possibly an unreadable root node in one of the two tries.
Snapshots ==
    {[accounts |-> [a \in x[1] |-> SnapshotAccount], storage |-> [s \in x[2] |-> 1],
      corrupt |-> x[3]] :
        x \in {y \in (SUBSET Keys) \X (SUBSET Keys) \X
                      ({"none", "account", "storage"} \X {<<>>}) :
                /\ Cardinality(y[1]) + Cardinality(y[2]) <= MaxLeaves
                /\ (y[2] # {} => StorageAddr \in y[1])
                /\ (y[3][1] = "account" => y[1] # {})
                /\ (y[3][1] = "storage" => y[2] # {})}}

\* The post states: at most MaxChanges account and slot entries, storage
\* entries for StorageAddr only.
PostStates ==
    UNION {
        {[accounts |-> acc,
          storages |-> [a \in {StorageAddr : slot \in x[2]} |-> sto]] :
            acc \in [x[1] -> {None, Some(PostAccount)}], sto \in [x[2] -> {0, 2}]} :
        x \in {y \in (SUBSET Keys) \X (SUBSET Keys) :
                Cardinality(y[1]) + Cardinality(y[2]) <= MaxChanges}}

NoCall == [key |-> <<>>, value |-> None, proof |-> <<>>, status |-> "none",
           trie_nodes |-> EmptyMap, trie |-> "none"]

NoCur == [hashed_address |-> <<>>, storage_multiproof |-> DefaultStorageMultiProof,
          value |-> None, hashed_slots |-> {}]

Init ==
    /\ snapshot \in Snapshots
    /\ state \in PostStates
    /\ pc = "start"
    /\ proof_targets = EmptyMap
    /\ remaining = {}
    /\ account_multiproof = [account_subtree |-> EmptyMap, storages |-> EmptyMap]
    /\ account_trie_nodes = EmptyMap
    /\ storage_trie_nodes = EmptyMap
    /\ cur = NoCur
    /\ witness = EmptyMap
    /\ result = None
    /\ requests = <<>>
    /\ debug_assertions = "either"
    /\ tn = NoCall
    /\ roots = <<>>
    /\ events = <<>>
    /\ BlobDefault

-----------------------------------------------------------------------------
(* TrieWitness::compute *)

Ok(w) == [ok |-> w]
Err(kind, at) == [err |-> [kind |-> kind, at |-> at]]
Panic(what) == [panic |-> what]
IsOk(r) == "ok" \in DOMAIN r
IsErr(r) == "err" \in DOMAIN r
IsPanic(r) == "panic" \in DOMAIN r

\* A compute that hands out what it has collected when a node does not decode.
FailureKeepsWitness(status, at) ==
    IF status = "panic" THEN Panic(at)
    ELSE IF status = "decode" THEN Ok(witness)
    ELSE IF status = "proof_error" THEN Err("Proof", at)
    ELSE Err("MissingTargetNode", at)

\* What compute returns when a callee did not succeed.
Failure(status, at) ==
    IF status = "panic" THEN Panic(at)
    ELSE IF status = "decode" THEN Err("Decode", at)
    ELSE IF status = "proof_error" THEN Err("Proof", at)
    ELSE Err("MissingTargetNode", at)

\* HashMap::from_iter over the account keys chained with the storages.
ProofTargets(post) ==
    [a \in (DOMAIN post.accounts) \cup (DOMAIN post.storages) |->
        IF a \in DOMAIN post.storages THEN DOMAIN post.storages[a] ELSE {}]

\* An account value that needs both the account and a non-empty storage.
AccountValueBoth(account, storage_root) ==
    IF IsSome(account) /\ storage_root # EMPTY_ROOT_HASH
    THEN Some(EncodeTrieAccount(IF IsSome(account) THEN account.some ELSE DefaultAccount,
                                storage_root))
    ELSE None

\* The leaf value of an account: None when the account is gone and has no storage.
AccountValue(account, storage_root) ==
    IF IsSome(account) \/ storage_root # EMPTY_ROOT_HASH
    THEN Some(EncodeTrieAccount(IF IsSome(account) THEN account.some ELSE DefaultAccount,
                                storage_root))
    ELSE None

\* The leaf value of a slot: None for a zero value.
SlotValue(post, hashed_address, hashed_slot) ==
    IF /\ hashed_address \in DOMAIN post.storages
       /\ hashed_slot \in DOMAIN post.storages[hashed_address]
       /\ post.storages[hashed_address][hashed_slot] # 0
    THEN Some(EncodeU256(post.storages[hashed_address][hashed_slot]))
    ELSE None

\* A lookup that takes a destroyed account for a missing one.
HasLiveAccount(post, hashed_address) ==
    hashed_address \in DOMAIN post.accounts /\ IsSome(post.accounts[hashed_address])

\* state.accounts.get(&hashed_address) is Some.
HasAccount(post, hashed_address) == hashed_address \in DOMAIN post.accounts

\* account_multiproof.storages.remove(&hashed_address).unwrap_or_default()
StorageMultiProofOf(multiproof, hashed_address) ==
    IF hashed_address \in DOMAIN multiproof.storages
    THEN multiproof.storages[hashed_address]
    ELSE DefaultStorageMultiProof

Return(r) ==
    /\ result' = r
    /\ pc' = "done"

\* A request to the provider and how it ended: "ok", "proof_error" or "missing".
Request(kind, key, outcome) == [kind |-> kind, key |-> key, outcome |-> outcome]

Call(trie, key, value, proof, r) ==
    [key |-> key, value |-> value, proof |-> proof, status |-> r.status,
     trie_nodes |-> r.trie_nodes, trie |-> trie]

\* Lines 81-94: the targets and the one multiproof request.
RequestMultiproof ==
    /\ pc = "start"
    /\ proof_targets' = ProofTargets(state)
    /\ events' = Append(events, <<"Multiproof", <<>>>>)
    /\ \E failed \in BOOLEAN :
        IF failed
        THEN /\ requests' = Append(requests, Request("multiproof", <<>>, "proof_error"))
             /\ Return(Err("Proof", <<>>))
             /\ UNCHANGED <<account_multiproof, remaining>>
        ELSE /\ requests' = Append(requests, Request("multiproof", <<>>, "ok"))
             /\ account_multiproof' = MultiProof(proof_targets')
             /\ remaining' = DOMAIN proof_targets'
             /\ pc' = "accounts"
             /\ UNCHANGED result
    /\ UNCHANGED blobvars
    /\ UNCHANGED <<snapshot, state, account_trie_nodes, storage_trie_nodes, cur, witness,
                   debug_assertions, tn, roots>>

\* Lines 100-124: one iteration of the for loop up to the account's target_nodes.
AccountStep ==
    /\ pc = "accounts"
    /\ \E hashed_address \in remaining :
        /\ remaining' = remaining \ {hashed_address}
        /\ account_multiproof' =
              [account_multiproof EXCEPT !.storages =
                  [a \in (DOMAIN @) \ {hashed_address} |-> @[a]]]
        /\ IF ~HasAccount(state, hashed_address)
           THEN /\ Return(Err("MissingAccount", hashed_address))
                /\ UNCHANGED <<account_trie_nodes, storage_trie_nodes, cur, witness, tn, events>>
           ELSE \E storage_multiproof \in {StorageMultiProofOf(account_multiproof, hashed_address)} :
                \E value \in {AccountValue(state.accounts[hashed_address], storage_multiproof.root)} :
                \E proof \in {ProofFor(account_multiproof.account_subtree, hashed_address)} :
                \E r \in {target_nodes(hashed_address, value, proof, Some(witness))} :
                    /\ witness' = r.witness.some
                    /\ tn' = Call("account", hashed_address, value, proof, r)
                    /\ events' = Append(events, <<"AccountValueBuild", hashed_address>>)
                    /\ cur' = [hashed_address |-> hashed_address,
                               storage_multiproof |-> storage_multiproof,
                               value |-> value,
                               hashed_slots |-> proof_targets[hashed_address]]
                    /\ IF r.status = "ok"
                       THEN /\ account_trie_nodes' = MapExtend(account_trie_nodes, r.trie_nodes)
                            /\ storage_trie_nodes' = EmptyMap
                            /\ pc' = "slots"
                            /\ UNCHANGED result
                       ELSE /\ Return(Failure(r.status, hashed_address))
                            /\ UNCHANGED <<account_trie_nodes, storage_trie_nodes>>
    /\ UNCHANGED blobvars
    /\ UNCHANGED <<snapshot, state, proof_targets, requests, debug_assertions, roots>>

\* Lines 129-142: one iteration of the loop over the changed slots.
SlotStep ==
    /\ pc = "slots"
    /\ \E hashed_slot \in cur.hashed_slots :
       \E slot_value \in {SlotValue(state, cur.hashed_address, hashed_slot)} :
       \E proof \in {ProofFor(cur.storage_multiproof.subtree, hashed_slot)} :
       \E r \in {target_nodes(hashed_slot, slot_value, proof, Some(witness))} :
            /\ cur' = [cur EXCEPT !.hashed_slots = @ \ {hashed_slot}]
            /\ witness' = r.witness.some
            /\ tn' = Call("storage", hashed_slot, slot_value, proof, r)
            /\ IF r.status = "ok"
               THEN /\ storage_trie_nodes' = MapExtend(storage_trie_nodes, r.trie_nodes)
                    /\ UNCHANGED <<pc, result>>
               ELSE /\ Return(Failure(r.status, hashed_slot))
                    /\ UNCHANGED storage_trie_nodes
    /\ UNCHANGED blobvars
    /\ UNCHANGED <<snapshot, state, proof_targets, remaining, account_multiproof,
                   account_trie_nodes, requests, debug_assertions, roots, events>>

\* What a request to the fallback provider may do besides answering.
ProviderFaults == {"none", "proof_error", "missing"}

RootRecord(trie, hashed_address, trie_nodes, r) ==
    [trie |-> trie, hashed_address |-> hashed_address, trie_nodes |-> trie_nodes,
     status |-> r.status, root |-> r.root, entries |-> r.entries, adds |-> r.adds,
     calls |-> r.calls, steps |-> r.steps]

\* The requests one next_root_from_proofs call made: only the last can have failed.
ProviderRequests(trie, r) ==
    [k \in 1 .. Len(r.calls) |->
        Request(trie, r.calls[k],
                IF k = Len(r.calls) /\ r.status \in {"proof_error", "missing"}
                THEN r.status ELSE "ok")]

\* Lines 144-166: the storage root of the current account and the debug_assert_eq.
StorageRootStep ==
    /\ pc = "slots"
    /\ cur.hashed_slots = {}
    /\ \E fault \in ProviderFaults :
       \E r \in {next_root_from_proofs(storage_trie_nodes,
                    [trie |-> "storage", hashed_address |-> cur.hashed_address,
                     fault |-> fault], witness)} :
            /\ (fault # "none" => r.calls # <<>>)
            /\ witness' = r.witness
            /\ requests' = requests \o ProviderRequests("storage", r)
            /\ roots' = Append(roots, RootRecord("storage", cur.hashed_address,
                                                 storage_trie_nodes, r))
            /\ events' = Append(events, <<"StorageResolution", cur.hashed_address>>)
            /\ IF r.status # "ok"
               THEN Return(Failure(r.status, r.key)) /\ UNCHANGED debug_assertions
               ELSE IF cur.storage_multiproof.root = r.root
               THEN pc' = "accounts" /\ UNCHANGED <<result, debug_assertions>>
               ELSE \/ /\ debug_assertions = "either"
                       /\ Return(Panic("debug_assert_eq"))
                       /\ UNCHANGED debug_assertions
                    \/ /\ debug_assertions' = "off"
                       /\ pc' = "accounts"
                       /\ UNCHANGED result
    /\ UNCHANGED blobvars
    /\ UNCHANGED <<snapshot, state, proof_targets, remaining, account_multiproof,
                   account_trie_nodes, storage_trie_nodes, cur, tn>>

\* Lines 169-188: the state root and the return of the witness.
StateRootStep ==
    /\ pc = "accounts"
    /\ remaining = {}
    /\ \E fault \in ProviderFaults :
       \E r \in {next_root_from_proofs(account_trie_nodes,
                    [trie |-> "account", hashed_address |-> <<>>, fault |-> fault],
                    witness)} :
            /\ (fault # "none" => r.calls # <<>>)
            /\ witness' = r.witness
            /\ requests' = requests \o ProviderRequests("account", r)
            /\ roots' = Append(roots, RootRecord("account", <<>>, account_trie_nodes, r))
            /\ events' = Append(events, <<"StateRootResolution", <<>>>>)
            /\ Return(IF r.status # "ok" THEN Failure(r.status, r.key) ELSE Ok(r.witness))
    /\ UNCHANGED blobvars
    /\ UNCHANGED <<snapshot, state, proof_targets, remaining, account_multiproof,
                   account_trie_nodes, storage_trie_nodes, cur, debug_assertions, tn>>

Next ==
    \/ RequestMultiproof
    \/ AccountStep
    \/ SlotStep
    \/ StorageRootStep
    \/ StateRootStep

Spec == Init /\ [][Next]_vars

-----------------------------------------------------------------------------
(* next_root_from_proofs on any node map: the last step of compute, started  *)
(* with an account_trie_nodes that is any map target_nodes can give the      *)
(* shape of (hashes at non-empty paths, values at full keys), over any       *)
(* stored account trie.                                                      *)

\* The keys of the stored trie and of the entries: the MaxKeys + 1 smallest
\* keys with a zero first and a zero third nibble, which part at the second
\* nibble, at the fourth, or at both.
RootKeys ==
    LET First(sorted) ==
            {sorted[k] : k \in {j \in 1 .. Len(sorted) : j <= MaxKeys + 1}}
    IN  First(SortedPaths({k \in AllKeys : k[1] = 0 /\ k[3] = 0}))

\* The non-empty prefixes of the keys.
RootPaths == {SubSeq(k, 1, n) : k \in RootKeys, n \in 1 .. KeyLen}

RootSnapshots ==
    {[accounts |-> [a \in A |-> SnapshotAccount], storage |-> [s \in {} |-> 1],
      corrupt |-> <<"none", <<>>>>] :
        A \in {B \in SUBSET RootKeys : Cardinality(B) <= MaxLeaves}}

\* A hash of a subtree that is not at hand.
SubtreeHash(path) == keccak256([kind |-> "subtree", at |-> path])

\* What a node map can hold at a path.
EntryValues(path) ==
    {Left(SubtreeHash(path))} \cup
    (IF Len(path) = KeyLen
     THEN {Right(EncodeTrieAccount(PostAccount, EMPTY_ROOT_HASH))} ELSE {})

\* The node maps of at most MaxChanges + 1 entries.
NodeMaps ==
    UNION {{m \in [D -> UNION {EntryValues(p) : p \in D}] :
                \A p \in D : m[p] \in EntryValues(p)} :
            D \in {E \in SUBSET RootPaths : Cardinality(E) <= MaxChanges + 1}}

RootInit ==
    /\ snapshot \in RootSnapshots
    /\ state = [accounts |-> EmptyMap, storages |-> EmptyMap]
    /\ pc = "accounts"
    /\ proof_targets = EmptyMap
    /\ remaining = {}
    /\ account_multiproof = [account_subtree |-> EmptyMap, storages |-> EmptyMap]
    /\ account_trie_nodes \in NodeMaps
    /\ storage_trie_nodes = EmptyMap
    /\ cur = NoCur
    /\ witness = EmptyMap
    /\ result = None
    /\ requests = <<>>
    /\ debug_assertions = "either"
    /\ tn = NoCall
    /\ roots = <<>>
    /\ events = <<>>
    /\ BlobDefault

RootSpec == RootInit /\ [][StateRootStep]_vars

-----------------------------------------------------------------------------
(* Properties of compute, target_nodes and next_root_from_proofs *)

\* The latest next_root_from_proofs call, if any.
HasRoot == roots # <<>>
LastRoot == roots[Len(roots)]

\* The targets the for loop has visited.
Visited ==
    IF requests = <<>> \/ requests[1].outcome # "ok" THEN {}
    ELSE (DOMAIN proof_targets) \ remaining

\* The witness holds the bytes under their hash.
Recorded(bytes) ==
    keccak256(bytes) \in DOMAIN witness /\ witness[keccak256(bytes)] = bytes

\* The leaves handed to a next_root_from_proofs call.
LeafEntries(trie_nodes) == {Entry(p, trie_nodes[p]) : p \in DOMAIN trie_nodes}

\* C1: when every entry handed to next_root_from_proofs is a leaf value, the
\* root it returns is the root of the Merkle-Patricia trie that holds exactly
\* those leaves.
C1_RootOfLeafEntries ==
    (/\ HasRoot
     /\ LastRoot.status = "ok"
     /\ \A p \in DOMAIN LastRoot.trie_nodes : IsRight(LastRoot.trie_nodes[p]))
    => LastRoot.root = TrieRoot(LeafEntries(LastRoot.trie_nodes))

\* A root was computed from two or more leaf values.
C1_Witness ==
    /\ HasRoot
    /\ LastRoot.status = "ok"
    /\ Cardinality(DOMAIN LastRoot.trie_nodes) >= 2
    /\ \A p \in DOMAIN LastRoot.trie_nodes : IsRight(LastRoot.trie_nodes[p])

\* A step of compute did not succeed: a provider request, a decode, or the
\* lookup of a visited target in the post state.
FailureSeen ==
    \/ \E k \in 1 .. Len(requests) : requests[k].outcome # "ok"
    \/ tn.status = "decode"
    \/ (HasRoot /\ LastRoot.status \in {"decode", "proof_error", "missing"})
    \/ \E a \in Visited : a \notin DOMAIN state.accounts

\* C2: once a step fails, compute has returned an error and no witness, and
\* the request that failed is the last one made: nothing is retried.
C2_ErrorAbortsCompute ==
    /\ FailureSeen => (IsErr(result) /\ pc = "done")
    /\ IsOk(result) => ~FailureSeen
    /\ \A k \in 1 .. Len(requests) : requests[k].outcome # "ok" => k = Len(requests)
    /\ \A k \in 1 .. (Len(roots) - 1) : roots[k].status = "ok"

\* compute failed on a node that does not decode after it had recorded two nodes.
C2_Witness ==
    /\ IsErr(result)
    /\ result.err.kind = "Decode"
    /\ Cardinality(DOMAIN witness) >= 2

\* The account entries that visiting the targets in the given order accumulates.
RECURSIVE AccountNodesInOrder(_, _, _)
AccountNodesInOrder(order, k, acc) ==
    IF k > Len(order) THEN acc
    ELSE LET a == order[k]
             Visit(mp) ==
                target_nodes(a,
                    AccountValue(state.accounts[a], StorageMultiProofOf(mp, a).root),
                    ProofFor(mp.account_subtree, a), None).trie_nodes
         IN  With(MapExtend(acc, With(MultiProof(proof_targets), Visit)),
                  LAMBDA next : AccountNodesInOrder(order, k + 1, next))

\* C3: the account entries compute has accumulated when it succeeds do not
\* depend on the order in which the loop visited the targets: they are the
\* entries that visiting the targets in key order accumulates.
C3_OrderIndependent ==
    IsOk(result) =>
        account_trie_nodes =
            AccountNodesInOrder(SortedPaths(DOMAIN proof_targets), 1, EmptyMap)

StorageRootIsBuilderRoot ==
    (/\ HasRoot
     /\ LastRoot.trie = "storage"
     /\ LastRoot.status = "ok"
     /\ LastRoot.hashed_address = cur.hashed_address
     /\ IsSome(cur.value))
    => cur.value.some.storage_root = LastRoot.root

\* The value of an account is built after the storage of that account was resolved.
ResolutionPrecedesValue ==
    \A i \in 1 .. Len(events) :
        events[i][1] = "AccountValueBuild"
            => \E j \in 1 .. (i - 1) : events[j] = <<"StorageResolution", events[i][2]>>

\* C5: the storage root in the value built for an account is the root the
\* builder returns for that account's storage entries, and the value of an
\* account is built only after its storage was resolved.
C5_LeafHoldsResolvedStorageRoot == StorageRootIsBuilderRoot /\ ResolutionPrecedesValue

\* The node a fallback request for the path got from the provider.
FetchedNode(trie, hashed_address, path) ==
    StoredNodes(trie, IF trie = "storage" THEN SnapshotStorageItems(hashed_address)
                      ELSE SnapshotAccountItems)[path]

\* C6: after target_nodes succeeds every node of the proof it consumed is in
\* the witness under its hash, and so is every node a fallback request got.
C6_ProofNodesRecorded ==
    /\ tn.status = "ok" => \A k \in 1 .. Len(tn.proof) : Recorded(tn.proof[k][2])
    /\ HasRoot =>
        \A c \in 1 .. Len(LastRoot.calls) :
            (c < Len(LastRoot.calls) \/ LastRoot.status \notin {"proof_error", "missing"})
                => Recorded(FetchedNode(LastRoot.trie, LastRoot.hashed_address,
                                        LastRoot.calls[c]))

\* A proof of three nodes was consumed and a fallback request was answered.
C6_Witness ==
    /\ tn.status = "ok"
    /\ Len(tn.proof) >= 3
    /\ HasRoot
    /\ LastRoot.status = "ok"
    /\ LastRoot.calls # <<>>

\* Every key of the witness is the hash of its value.
WitnessKeyedByHash == \A h \in DOMAIN witness : h = keccak256(witness[h])

\* No step removes or changes an entry of the witness, and a target_nodes
\* call whose proof nodes are all recorded already leaves it as it was.
WitnessKept ==
    /\ \A h \in DOMAIN witness : h \in DOMAIN witness' /\ witness'[h] = witness[h]
    /\ (tn' # tn /\ \A k \in 1 .. Len(tn'.proof) : Recorded(tn'.proof[k][2]))
            => witness' = witness

\* C7: every key of the witness is the hash of its value, an entry is never
\* removed or changed, and inserting a node that is there already changes
\* nothing.
C7_WitnessIntegrity == []WitnessKeyedByHash /\ [][WitnessKept]_vars

\* A second account target was handled whose proof starts with the root node
\* the first one had recorded.
C7_Witness ==
    /\ tn.trie = "account"
    /\ tn.status = "ok"
    /\ tn.proof # <<>>
    /\ Cardinality(Visited) = 2
    /\ Recorded(tn.proof[1][2])
    /\ \A a \in Visited : ProofFor(account_multiproof.account_subtree, a)[1] = tn.proof[1]

\* The multiproof holds an entry for the account.
HasMultiproofEntry(a) == a \in DOMAIN MultiProof(proof_targets).storages

\* C8 as stated: compute fails with MissingAccount for exactly the visited
\* targets for which the multiproof holds no account entry.
C8_MissingAccountIffNoMultiproofEntry ==
    /\ \A a \in Visited : ~HasMultiproofEntry(a) => result = Err("MissingAccount", a)
    /\ (IsErr(result) /\ result.err.kind = "MissingAccount")
            => ~HasMultiproofEntry(result.err.at)

\* C8: compute fails with MissingAccount for exactly the visited targets for
\* which the accounts map of the post state holds no entry.
C8_MissingAccountIffNoPostStateEntry ==
    /\ \A a \in Visited : a \notin DOMAIN state.accounts => result = Err("MissingAccount", a)
    /\ (IsErr(result) /\ result.err.kind = "MissingAccount")
            => /\ result.err.at \in Visited
               /\ result.err.at \notin DOMAIN state.accounts
               /\ result.err.at \in DOMAIN state.storages

\* MissingAccount for a target the multiproof holds an entry for.
C8_Witness ==
    /\ IsErr(result)
    /\ result.err.kind = "MissingAccount"
    /\ HasMultiproofEntry(result.err.at)

\* C9: for a branch node at path P of the proof, every child P+i of its state
\* mask that is not on the path to the key has the entry Left(hash of that
\* child), and the child on the path to the key has no hash entry.
C9_BranchRule ==
    tn.status = "ok" =>
        \A k \in 1 .. Len(tn.proof) :
            LET P == tn.proof[k][1]
                node == tn.proof[k][2]
            IN  node.kind = "branch" =>
                    \A i \in node.state_mask :
                        LET child == Append(P, i)
                            hash == node.stack[Cardinality({j \in node.state_mask : j <= i})][2]
                        IN  IF starts_with(tn.key, child)
                            THEN child \in DOMAIN tn.trie_nodes => IsRight(tn.trie_nodes[child])
                            ELSE /\ child \in DOMAIN tn.trie_nodes
                                 /\ tn.trie_nodes[child] = Left(hash)

\* A proof with a branch node below the root was consumed.
C9_Witness ==
    /\ tn.status = "ok"
    /\ \E k \in 1 .. Len(tn.proof) :
        /\ tn.proof[k][2].kind = "branch"
        /\ tn.proof[k][1] # <<>>
        /\ Append(tn.proof[k][1], 1) \in DOMAIN tn.trie_nodes

\* C10: a leaf node of the proof whose full path is not the key has the entry
\* Right(its value) at its full path; at the key there is the target's value
\* or nothing; and every entry is at the key, at a leaf's full path or at a
\* child of a branch, so an extension node gives no entry.
C10_LeafRule ==
    tn.status = "ok" =>
        /\ \A k \in 1 .. Len(tn.proof) :
            LET P == tn.proof[k][1]
                node == tn.proof[k][2]
            IN  (node.kind = "leaf" /\ (P \o node.key) # tn.key)
                    => /\ (P \o node.key) \in DOMAIN tn.trie_nodes
                       /\ tn.trie_nodes[P \o node.key] = Right(node.value)
        /\ IF IsSome(tn.value)
           THEN tn.key \in DOMAIN tn.trie_nodes /\ tn.trie_nodes[tn.key] = Right(tn.value.some)
           ELSE tn.key \notin DOMAIN tn.trie_nodes
        /\ \A p \in (DOMAIN tn.trie_nodes) \ {tn.key} :
            \E k \in 1 .. Len(tn.proof) :
                LET P == tn.proof[k][1]
                    node == tn.proof[k][2]
                IN  \/ node.kind = "leaf" /\ p = P \o node.key
                    \/ node.kind = "branch" /\ \E i \in node.state_mask : p = Append(P, i)

\* A leaf of another key was at the end of the proof of a deleted target.
C10_Witness ==
    /\ tn.status = "ok"
    /\ tn.value = None
    /\ \E k \in 1 .. Len(tn.proof) :
        /\ tn.proof[k][2].kind = "leaf"
        /\ (tn.proof[k][1] \o tn.proof[k][2].key) # tn.key
        /\ (tn.proof[k][1] \o tn.proof[k][2].key) \in DOMAIN tn.trie_nodes

\* C11: when target_nodes succeeds, the map it returns holds the new value at
\* the target key when a value was supplied, whatever the proof, the empty
\* proof included, and holds nothing at the target key when none was; for a
\* slot no value is supplied exactly when the post state gives it the value zero.
C11_TargetEntry ==
    /\ tn.status = "ok" =>
        IF IsSome(tn.value)
        THEN tn.key \in DOMAIN tn.trie_nodes /\ tn.trie_nodes[tn.key] = Right(tn.value.some)
        ELSE tn.key \notin DOMAIN tn.trie_nodes
    /\ tn.trie = "storage" =>
        LET v == state.storages[cur.hashed_address][tn.key]
        IN  IF v = 0 THEN tn.value = None ELSE tn.value = Some(EncodeU256(v))

\* A value was supplied with an empty proof: the map is the one entry.
C11_Witness ==
    /\ tn.status = "ok"
    /\ tn.proof = <<>>
    /\ IsSome(tn.value)
    /\ DOMAIN tn.trie_nodes = {tn.key}

\* The paths of the entries next_root_from_proofs kept.
RetainedPaths(rec) == {rec.entries[k][1] : k \in 1 .. Len(rec.entries)}

\* The paths of a map that are a strict prefix of another path of the map.
StrictPrefixes(m) == {p \in DOMAIN m : \E q \in DOMAIN m : q # p /\ starts_with(q, p)}

\* C12: the entries next_root_from_proofs keeps are exactly the entries whose
\* path is not a strict prefix of any other entry's path; they are prefix
\* free, in key order, and each has the value it had in the map.
C12_ReducerKeepsPrefixFree ==
    HasRoot =>
        /\ RetainedPaths(LastRoot) = (DOMAIN LastRoot.trie_nodes) \ StrictPrefixes(LastRoot.trie_nodes)
        /\ PrefixFree(RetainedPaths(LastRoot))
        /\ \A k \in 1 .. Len(LastRoot.entries) :
            /\ LastRoot.entries[k][2] = LastRoot.trie_nodes[LastRoot.entries[k][1]]
            /\ k > 1 => NibblesLess(LastRoot.entries[k - 1][1], LastRoot.entries[k][1])

\* An entry was dropped whose path is a prefix of two other entries, one of
\* which does not follow it immediately.
C12_Witness ==
    /\ HasRoot
    /\ Len(LastRoot.entries) = 2
    /\ \E p \in StrictPrefixes(LastRoot.trie_nodes) :
        \A q \in RetainedPaths(LastRoot) : starts_with(q, p)

\* The path the hash builder was given last before the k-th entry of a
\* next_root_from_proofs call, empty when it was given none.
RECURSIVE BuilderKeyBefore(_, _)
BuilderKeyBefore(rec, k) ==
    IF k = 1 THEN <<>>
    ELSE IF rec.steps[k - 1].adds # <<>>
    THEN rec.steps[k - 1].adds[Len(rec.steps[k - 1].adds)].path
    ELSE BuilderKeyBefore(rec, k - 1)

\* The builder's key or the path of the entry after the k-th starts with the
\* parent of the path of the k-th entry.
ParentCovered(rec, k) ==
    LET path == rec.entries[k][1]
        parent == SubSeq(path, 1, Len(path) - 1)
    IN  \/ starts_with(BuilderKeyBefore(rec, k), parent)
        \/ (k < Len(rec.entries) /\ starts_with(rec.entries[k + 1][1], parent))

\* C13: a hash entry whose parent path is a prefix of the builder's key or
\* of the next kept entry's path is added as a branch child without a
\* provider request; every other hash entry causes a provider request; a
\* value entry is added as a leaf and never causes one.
C13_FallbackIffIsolated ==
    HasRoot =>
        \A k \in 1 .. Len(LastRoot.steps) :
            LET step == LastRoot.steps[k]
                entry == LastRoot.entries[k]
            IN  /\ step.path = entry[1]
                /\ IF IsRight(entry[2]) \/ ParentCovered(LastRoot, k)
                   THEN /\ step.calls = <<>>
                        /\ step.adds = <<Entry(entry[1], entry[2])>>
                   ELSE step.calls # <<>>

\* One call added a hash below the builder's key alone and asked the provider
\* for another.
C13_Witness ==
    /\ HasRoot
    /\ LastRoot.status = "ok"
    /\ \E k \in 1 .. Len(LastRoot.steps) :
        /\ IsLeft(LastRoot.entries[k][2])
        /\ LastRoot.steps[k].calls = <<>>
        /\ Len(LastRoot.entries[k][1]) > 1
        /\ ~(k < Len(LastRoot.entries)
             /\ starts_with(LastRoot.entries[k + 1][1],
                            SubSeq(LastRoot.entries[k][1], 1, Len(LastRoot.entries[k][1]) - 1)))
    /\ \E k \in 1 .. Len(LastRoot.steps) : LastRoot.steps[k].calls # <<>>

\* The node the provider of a next_root_from_proofs call holds at the path.
NodeAt(rec, path) == FetchedNode(rec.trie, rec.hashed_address, path)

\* The steps of the latest call that asked the provider.
FallbackSteps == {k \in 1 .. Len(LastRoot.steps) : LastRoot.steps[k].calls # <<>>}

\* C14 as stated: the first path a fallback passes to the provider is the
\* parent's path, the path of the entry without its last nibble.
C14_FirstRequestIsParentPath ==
    HasRoot =>
        \A k \in FallbackSteps :
            LET path == LastRoot.entries[k][1]
            IN  LastRoot.steps[k].calls[1] = SubSeq(path, 1, Len(path) - 1)

\* The additions of a step are the children of the branch node at the path,
\* every one as a hash, in index order.
AddsAreChildren(adds, path, node) ==
    /\ Len(adds) = Cardinality(node.state_mask)
    /\ \A i \in node.state_mask :
        adds[Cardinality({j \in node.state_mask : j <= i})] =
            Entry(Append(path, i),
                  Left(node.stack[Cardinality({j \in node.state_mask : j <= i})][2]))

\* C14: the first path a fallback passes to the provider is the path of the
\* entry itself; every request but the last got an extension node and the
\* next request is for the requested path extended by the extension's key;
\* a fallback that succeeds ends with a branch node, all of whose children
\* are added as hashes, or with a leaf node, which is added as a leaf.
C14_FallbackRequests ==
    HasRoot =>
        \A k \in FallbackSteps :
            LET step == LastRoot.steps[k]
                calls == step.calls
                last == calls[Len(calls)]
            IN  /\ calls[1] = LastRoot.entries[k][1]
                /\ \A j \in 1 .. (Len(calls) - 1) :
                    /\ NodeAt(LastRoot, calls[j]).kind = "extension"
                    /\ calls[j + 1] = calls[j] \o NodeAt(LastRoot, calls[j]).key
                /\ step.status = "ok" =>
                    \/ /\ NodeAt(LastRoot, last).kind = "branch"
                       /\ AddsAreChildren(step.adds, last, NodeAt(LastRoot, last))
                    \/ /\ NodeAt(LastRoot, last).kind = "leaf"
                       /\ step.adds = <<Entry(last \o NodeAt(LastRoot, last).key,
                                              Right(NodeAt(LastRoot, last).value))>>

\* A fallback followed an extension node to a branch node and added its children.
C14_Witness ==
    /\ HasRoot
    /\ LastRoot.status = "ok"
    /\ \E k \in FallbackSteps :
        /\ Len(LastRoot.steps[k].calls) = 2
        /\ Len(LastRoot.steps[k].adds) >= 2

TargetAccountValue(a) ==
    AccountValue(state.accounts[a], StorageMultiProofOf(MultiProof(proof_targets), a).root)

\* The map holds the value at the key, or nothing at the key when there is none.
HoldsTarget(trie_nodes, key, value) ==
    IF IsSome(value)
    THEN key \in DOMAIN trie_nodes /\ trie_nodes[key] = Right(value.some)
    ELSE key \notin DOMAIN trie_nodes

\* C17: once the maps of all targets of a trie are merged, the merged map
\* holds at the key of every target its new value, and nothing at the key of
\* a deleted target: account_trie_nodes after the loop over the accounts,
\* storage_trie_nodes after the loop over the slots of an account.
C17_MergedMapHoldsNewValues ==
    /\ (pc = "accounts" /\ remaining = {})
            => \A a \in DOMAIN proof_targets :
                    HoldsTarget(account_trie_nodes, a, TargetAccountValue(a))
    /\ (HasRoot /\ LastRoot.trie = "storage")
            => \A slot \in proof_targets[LastRoot.hashed_address] :
                    HoldsTarget(LastRoot.trie_nodes, slot,
                                SlotValue(state, LastRoot.hashed_address, slot))

-----------------------------------------------------------------------------
(* BlobTransactions: the sub-pool of parked blob transactions *)

\* Nonces of a sender's transactions run over 0 .. MaxNonce.
MaxNonce == 1
\* Fees and fee caps run over 0 .. MaxFee.
MaxFee == 1
\* add_transaction is called at most this often, which keeps submission_id
\* far from the point where wrapping_add wraps.
MaxSubmissions == 3

Senders == {0, 1}

\* TransactionId: its order compares the sender, then the nonce.
TransactionIds == {[sender |-> s, nonce |-> n] : s \in Senders, n \in 0 .. MaxNonce}
TransactionIdLess(a, b) ==
    \/ a.sender < b.sender
    \/ a.sender = b.sender /\ a.nonce < b.nonce

\* The blob transactions handed to the pool: each has both fee caps, at most
\* one of them low, and a size its fields fix.
FeeCaps == {<<0, MaxFee>>, <<MaxFee, 0>>, <<MaxFee, MaxFee>>}
PoolTransactions ==
    {[id |-> i, max_fee_per_gas |-> c[1], max_fee_per_blob_gas |-> Some(c[2]),
      size |-> 1 + i.nonce + c[1]] : i \in TransactionIds, c \in FeeCaps}

\* Ord for Option<u128>: None is below every Some.
OptionLess(a, b) ==
    IF IsSome(a) THEN IsSome(b) /\ a.some < b.some ELSE IsSome(b)

\* BlobOrd, and the order of BlobTransaction: two are equal when their
\* submission ids are.
BlobOrd(id) == [submission_id |-> id]
BlobTransaction(ord, tx) == [transaction |-> tx, ord |-> ord]
BlobTransactionEq(a, b) == a.ord.submission_id = b.ord.submission_id

\* BTreeSet::insert keeps the element it has when an equal one comes;
\* BTreeSet::remove takes out the element equal to the given one.
BTreeSetInsert(set, e) ==
    IF \E x \in set : BlobTransactionEq(x, e) THEN set ELSE set \cup {e}
BTreeSetRemove(set, e) == {x \in set : ~BlobTransactionEq(x, e)}
MapRemove(m, k) == [p \in (DOMAIN m) \ {k} |-> m[p]]

\* The fields of the pool as one value.
BlobPool ==
    [submission_id |-> submission_id, by_id |-> by_id, all |-> all, size_of |-> size_of]

next_id(pool) ==
    [id |-> pool.submission_id, pool |-> [pool EXCEPT !.submission_id = @ + 1]]

add_transaction(pool, tx) ==
    LET n == next_id(pool)
        transaction == BlobTransaction(BlobOrd(n.id), tx)
    IN  [n.pool EXCEPT !.size_of = @ + tx.size,
                       !.by_id = MapInsert(@, tx.id, transaction),
                       !.all = BTreeSetInsert(@, transaction)]

remove_transaction_keeps_all(pool, id) ==
    IF id \notin DOMAIN pool.by_id
    THEN [pool |-> pool, out |-> None]
    ELSE LET tx == pool.by_id[id]
         IN  [pool |-> [pool EXCEPT !.by_id = MapRemove(@, id),
                                    !.size_of = @ - tx.transaction.size],
              out |-> Some(tx.transaction)]

remove_transaction(pool, id) ==
    IF id \notin DOMAIN pool.by_id
    THEN [pool |-> pool, out |-> None]
    ELSE LET tx == pool.by_id[id]
         IN  [pool |-> [pool EXCEPT !.by_id = MapRemove(@, id),
                                    !.all = BTreeSetRemove(@, tx),
                                    !.size_of = @ - tx.transaction.size],
              out |-> Some(tx.transaction)]

\* The keys of by_id in the order the iterator yields them.
RECURSIVE SortedIds(_)
SortedIds(S) ==
    IF S = {} THEN <<>>
    ELSE LET first == CHOOSE a \in S : \A b \in S \ {a} : TransactionIdLess(a, b)
         IN  <<first>> \o SortedIds(S \ {first})

\* The test of line 121: the transaction stays parked under the fees.
StillParked(tx, pending_fees) ==
    \/ OptionLess(tx.max_fee_per_blob_gas, Some(pending_fees.blob_fee))
    \/ tx.max_fee_per_gas < pending_fees.base_fee

\* The inner loop: the iterator moves past the entries of the same sender.
RECURSIVE skip_descendants(_, _, _)
skip_descendants(ids, i, sender) ==
    IF i > Len(ids) \/ ids[i].sender # sender THEN i
    ELSE skip_descendants(ids, i + 1, sender)

RECURSIVE satisfy_loop_no_skip(_, _, _, _, _)
satisfy_loop_no_skip(pool, pending_fees, ids, i, transactions) ==
    IF i > Len(ids) THEN transactions
    ELSE IF StillParked(pool.by_id[ids[i]].transaction, pending_fees)
    THEN satisfy_loop_no_skip(pool, pending_fees, ids, i + 1, transactions)
    ELSE satisfy_loop_no_skip(pool, pending_fees, ids, i + 1, Append(transactions, ids[i]))

RECURSIVE satisfy_loop(_, _, _, _, _)
satisfy_loop(pool, pending_fees, ids, i, transactions) ==
    IF i > Len(ids) THEN transactions
    ELSE IF StillParked(pool.by_id[ids[i]].transaction, pending_fees)
    THEN satisfy_loop(pool, pending_fees, ids,
                      skip_descendants(ids, i + 1, ids[i].sender), transactions)
    ELSE satisfy_loop(pool, pending_fees, ids, i + 1, Append(transactions, ids[i]))

satisfy_pending_fee_ids(pool, pending_fees) ==
    satisfy_loop(pool, pending_fees, SortedIds(DOMAIN pool.by_id), 1, <<>>)

\* The loop of enforce_pending_fees; expect panics when a removal finds nothing.
RECURSIVE enforce_loop(_, _, _, _)
enforce_loop(pool, to_remove, k, removed) ==
    IF k > Len(to_remove) THEN [pool |-> pool, out |-> removed, panic |-> FALSE]
    ELSE LET r == remove_transaction(pool, to_remove[k])
         IN  IF IsSome(r.out)
             THEN enforce_loop(r.pool, to_remove, k + 1, Append(removed, r.out.some))
             ELSE [pool |-> pool, out |-> removed, panic |-> TRUE]

enforce_pending_fees(pool, pending_fees) ==
    enforce_loop(pool, satisfy_pending_fee_ids(pool, pending_fees), 1, <<>>)

PendingFees == {[base_fee |-> f, blob_fee |-> b] : f \in 0 .. MaxFee, b \in 0 .. MaxFee}

SetPool(pool) ==
    /\ submission_id' = pool.submission_id
    /\ by_id' = pool.by_id
    /\ all' = pool.all
    /\ size_of' = pool.size_of

\* A call of add_transaction that passes both assertions.
AddTransaction ==
    /\ submission_id < MaxSubmissions
    /\ \E tx \in PoolTransactions :
        /\ tx.id \notin DOMAIN by_id
        /\ SetPool(add_transaction(BlobPool, tx))
        /\ live' = live \cup {tx}
        /\ call' = [op |-> "add_transaction"]
    /\ UNCHANGED witnessvars

RemoveTransaction ==
    /\ \E id \in TransactionIds :
        \E r \in {remove_transaction(BlobPool, id)} :
            /\ SetPool(r.pool)
            /\ live' = IF IsSome(r.out) THEN live \ {r.out.some} ELSE live
            /\ call' = [op |-> "remove_transaction"]
    /\ UNCHANGED witnessvars

EnforcePendingFees ==
    /\ \E pending_fees \in PendingFees :
        \E r \in {enforce_pending_fees(BlobPool, pending_fees)} :
            /\ ~r.panic
            /\ SetPool(r.pool)
            /\ live' = live \ {r.out[k] : k \in 1 .. Len(r.out)}
            /\ call' = [op |-> "enforce_pending_fees", pending_fees |-> pending_fees,
                        before |-> by_id, out |-> r.out]
    /\ UNCHANGED witnessvars

\* The pool on its own, new and with no witness computation running.
BlobInit ==
    /\ snapshot = [accounts |-> EmptyMap, storage |-> EmptyMap, corrupt |-> <<"none", <<>>>>]
    /\ state = [accounts |-> EmptyMap, storages |-> EmptyMap]
    /\ pc = "done"
    /\ proof_targets = EmptyMap
    /\ remaining = {}
    /\ account_multiproof = [account_subtree |-> EmptyMap, storages |-> EmptyMap]
    /\ account_trie_nodes = EmptyMap
    /\ storage_trie_nodes = EmptyMap
    /\ cur = NoCur
    /\ witness = EmptyMap
    /\ result = None
    /\ requests = <<>>
    /\ debug_assertions = "either"
    /\ tn = NoCall
    /\ roots = <<>>
    /\ events = <<>>
    /\ BlobDefault

BlobNext ==
    \/ AddTransaction
    \/ RemoveTransaction
    \/ EnforcePendingFees

BlobSpec == BlobInit /\ [][BlobNext]_vars

-----------------------------------------------------------------------------
(* Properties of the blob pool *)

RECURSIVE SumOfSizes(_)
SumOfSizes(txs) ==
    IF txs = {} THEN 0
    ELSE LET tx == CHOOSE t \in txs : TRUE
         IN  tx.size + SumOfSizes(txs \ {tx})

\* C15: after any calls of add_transaction, remove_transaction and
\* enforce_pending_fees that do not panic, by_id and all hold the same
\* transactions (as many entries in one as in the other, and every entry of
\* by_id is in all), these are the transactions added and not yet removed,
\* len() is their number and size() the sum of their sizes.
C15_ByIdAndAllAgree ==
    /\ Cardinality(DOMAIN by_id) = Cardinality(all)
    /\ \A id \in DOMAIN by_id : by_id[id] \in all /\ by_id[id].transaction.id = id
    /\ {by_id[id].transaction : id \in DOMAIN by_id} = live
    /\ Cardinality(DOMAIN by_id) = Cardinality(live)
    /\ size_of = SumOfSizes(live)

\* Every submission id was handed out; a transaction was removed by id,
\* another by the fees, and one is still in the pool.
C15_Witness ==
    /\ submission_id = MaxSubmissions
    /\ call.op = "enforce_pending_fees"
    /\ Len(call.out) = 1
    /\ Cardinality(DOMAIN call.before) = 2
    /\ Cardinality(live) = 1

\* The transactions of a by_id map.
TransactionsOf(map) == {map[id].transaction : id \in DOMAIN map}

\* The transaction can pay the fees.
PaysFees(tx, pending_fees) ==
    /\ IsSome(tx.max_fee_per_blob_gas)
    /\ tx.max_fee_per_blob_gas.some >= pending_fees.blob_fee
    /\ tx.max_fee_per_gas >= pending_fees.base_fee

\* b is a descendant of a: the same sender's transaction with a higher nonce.
Descendant(a, b) == a.id.sender = b.id.sender /\ a.id.nonce < b.id.nonce

\* The latest call was enforce_pending_fees: it returned each of the given
\* transactions once, took them and nothing else out of the pool, and left
\* the others as they were.
EnforceReturned(txs) ==
    /\ {call.out[k] : k \in 1 .. Len(call.out)} = txs
    /\ Len(call.out) = Cardinality(txs)
    /\ by_id = [id \in {i \in DOMAIN call.before : call.before[i].transaction \notin txs}
                    |-> call.before[id]]
    /\ all = {by_id[id] : id \in DOMAIN by_id}

====
